---- MODULE Spec2Model ----
(***************************************************************************)
(* Model of the sensor-logging program: sensors (src/sensors/base_sensor.py) *)
(* send Messages (src/service/model/message.py) over one of three          *)
(* transports (src/utils/network.py: TCP socket, shared-memory mailbox,    *)
(* pipe); one ingestion loop per consumer endpoint forwards every decoded  *)
(* Message to the chain of Repository decorators                           *)
(* (src/service/repository/repository.py); src/main.py wires everything    *)
(* and runs the shutdown sequence.                                         *)
(*                                                                         *)
(* Bytes are modelled as tokens (strings): "{", "}", one token per encoded *)
(* field or digit, and "nul" for a zero byte of the shared-memory mailbox. *)
(***************************************************************************)
EXTENDS Integers, Sequences, FiniteSets, TLC

(***************************************************************************)
(* Bounds                                                                  *)
(***************************************************************************)
\* Capacity of the shared-memory mailbox in tokens (2048 bytes in
\* SMClientConnection.__init__; scaled down, every payload length the
\* model uses is defined relative to it).
MailboxSize == 7
\* Samples one sensor acquires before it only waits for the stop event.
MaxTicks == 2
\* Sensors (and socket connections) of the socket variant.
NumSensors == 1
\* Ingestion threads that call append on the same chain concurrently.
NumThreads == 2
\* Messages one ingestion thread forwards in the chain specification.
MaxAppends == 2
\* Bytes a partial sckt.send takes.
PartialSend == 3
\* Calls of close() on one endpoint after its first one.
MaxCloses == 1
\* Largest sensor id of the Messages that are encoded and decoded.
MaxId == 2
\* Longest string chop_json is applied to.
MaxChopLen == 5

(***************************************************************************)
(* Message (src/service/model/message.py)                                  *)
(***************************************************************************)
\* Python's None as the data of a control message.
None == <<"None">>

\* Number of tokens of the encoding besides the data: { id name time_stamp }
EnvelopeLen == 5

\* Longest sample (in digits) a probe returns: its encoding is one token
\* longer than the mailbox.
MaxDataLen == MailboxSize - EnvelopeLen + 1

Ones(n) == [k \in 1..n |-> "1"]

\* Values of the probe (random.randint in main.py: always a number). Their
\* length matters to the shared-memory mailbox only.
ProbeValues(ct) == IF ct = "shared_memory" THEN {Ones(n) : n \in 1..MaxDataLen}
                   ELSE {Ones(1)}

\* main.py 113-120: the sensor at place i of the list has the id i - 1 and
\* the name built from the same number
SensorId(i) == i - 1

SensorName(id) == IF id = 0 THEN "Sensor-0" ELSE IF id = 1 THEN "Sensor-1"
                  ELSE IF id = 2 THEN "Sensor-2" ELSE "Sensor-n"

\* Message.__init__ / set_data
Message(id, name, data, time_stamp) ==
    [id |-> id, name |-> name, data |-> data, time_stamp |-> time_stamp]

\* str() of an integer, one token
IntToken(n) == CASE n = 0 -> "0" [] n = 1 -> "1" [] n = 2 -> "2" [] n = 3 -> "3"
                 [] n = 4 -> "4" [] n = 5 -> "5" [] n = 6 -> "6" [] n = 7 -> "7"
                 [] n = 8 -> "8" [] OTHER -> "9"

IntTokens == {IntToken(n) : n \in 0..9}

\* int() of a token produced by IntToken
TokenInt(t) == CHOOSE n \in 0..9 : IntToken(n) = t

\* Message.to_json: json.dumps(self.__dict__); None is rendered as null
to_json(m) ==
    <<"{", IntToken(m.id), m.name>> \o (IF m.data = None THEN <<"null">> ELSE m.data)
        \o <<IntToken(m.time_stamp), "}">>

\* json.loads accepts the text: exactly one object, nothing before or after it
Decodable(j) ==
    /\ Len(j) > EnvelopeLen
    /\ j[1] = "{"
    /\ j[Len(j)] = "}"
    /\ \A k \in 2..(Len(j) - 1) : j[k] \notin {"{", "}", "nul"}
    /\ j[2] \in IntTokens
    /\ j[Len(j) - 1] \in IntTokens

\* Message.from_json_str / from_json: the fields of the decoded object
\* replace those of a temporary Message(42, 'unknown', 1)
from_json_str(j) ==
    LET d == SubSeq(j, 4, Len(j) - 2)
    IN  Message(TokenInt(j[2]), j[3], IF d = <<"null">> THEN None ELSE d,
                TokenInt(j[Len(j) - 1]))

\* ---- the encoded object member by member ---------------------------------
\* json.dumps(self.__dict__) of to_json (46-47): the members <<key, value>>
\* of the object in the order of the dictionary, a value as <<type, content>>
\* of its JSON text; None is written as null
json_dumps(d) ==
    << <<"id", <<"number", d.id>> >>,
       <<"name", <<"string", d.name>> >>,
       <<"data", IF d.data = None THEN <<"null", "null">> ELSE <<"number", d.data>> >>,
       <<"time_stamp", <<"string", d.time_stamp>> >> >>

\* json.loads of one member value; null is read as None
python_value(j) == IF j[1] = "null" THEN None ELSE j[2]

\* from_json 53: if key in attrs
KnownKey_any(key, attrs) == TRUE

KnownKey(key, attrs) == key \in attrs

\* from_json 54: setattr(self, key, val)
setattr(self, key, val) ==
    [k \in DOMAIN self \cup {key} |-> IF k = key THEN val ELSE self[k]]

\* Message.from_json (49-56) for the members from place n on
RECURSIVE from_json(_, _, _)
from_json(self, jdict, n) ==
    IF n > Len(jdict) THEN self
    ELSE LET key == jdict[n][1]
             val == python_value(jdict[n][2])
         IN  from_json(IF KnownKey(key, DOMAIN self) THEN setattr(self, key, val) ELSE self,
                       jdict, n + 1)

\* Message.from_json_str (58-60) on the members of the encoded object
from_json_members(jdict) == from_json(Message(42, "unknown", <<"1">>, 0), jdict, 1)

(***************************************************************************)
(* Repository chain (src/service/repository/repository.py)                 *)
(***************************************************************************)
SinkKinds == {"sql", "csv", "screen", "plot"}

\* The state of one decorated Repository: the base Repository's list and the
\* attributes, files and queues of the decorators. handled is the record of
\* the _handle calls that ran, <<sink, message>>, in the order they ran.
\* Of the last iteration over a sink: read_of is the sink, read_from the
\* samples it held when the iteration began, yielded the Messages the
\* iteration gave, read_raised whether an exception ended it.
EmptyRepo ==
    [message_list |-> <<>>,
     table_created |-> FALSE, rowid |-> 0, sql_rows |-> <<>>, iterating |-> FALSE,
     header_written |-> FALSE, csv_file |-> <<>>,
     screen_out |-> <<>>,
     plot_queue |-> <<>>, plot_stop_event |-> FALSE,
     handled |-> <<>>,
     read_of |-> "none", read_from |-> <<>>, yielded |-> <<>>, read_raised |-> FALSE]

\* Repository.append
Repository_append(r, m) == [r EXCEPT !.message_list = Append(@, m)]

\* ScreenRepository._handle
Screen_handle(r, m) == [r EXCEPT !.screen_out = Append(@, m)]

\* CSVRepository._handle 115-120: the rows the writer buffers for a sample,
\* the header first when it was not written yet
CSV_rows(r, m) ==
    (IF r.header_written THEN <<>> ELSE << <<"header">> >>) \o << <<"row", m>> >>

\* 119: self.header_written = True
CSV_mark(r) == [r EXCEPT !.header_written = TRUE]

\* the end of the with block of line 115: the file is closed and the
\* buffered rows are appended to it
CSV_flush(r, rows) == [r EXCEPT !.csv_file = @ \o rows]

\* CSVRepository._handle
CSV_handle(r, m) ==
    IF m.data = None THEN r
    ELSE CSV_flush(CSV_mark(r), CSV_rows(r, m))

\* SQLRepository._handle
SQL_handle(r, m) ==
    IF m.data = None THEN r
    ELSE [r EXCEPT !.table_created = TRUE,
                   !.sql_rows = Append(@, [rowid |-> r.rowid, message |-> m]),
                   !.rowid = @ + 1]

\* 171-172: the INSERT with self.rowid as message_id, the table's INTEGER
\* PRIMARY KEY, is refused (sqlite3.IntegrityError) when a row has that key
SQL_conflict(r) == \E k \in DOMAIN r.sql_rows : r.sql_rows[k].rowid = r.rowid

\* the attributes of the class Message (message.py 33-63)
MessageAttrs == {"__init__", "set_data", "to_json", "from_json", "from_json_str",
                 "int_message"}

\* Message.<name> is there; AttributeError otherwise
HasAttr(name) == name \in MessageAttrs

\* the Messages of the data rows of the CSV file
CSV_samples(r) ==
    LET IsRow(row) == row[1] = "row"
        rows == SelectSeq(r.csv_file, IsRow)
    IN  [k \in DOMAIN rows |-> rows[k][2]]

\* the Messages of the rows of the table
SQL_samples(r) == [k \in DOMAIN r.sql_rows |-> r.sql_rows[k].message]

\* an iteration over the sink kind begins
Read_begin(r, kind) ==
    [r EXCEPT !.read_of = kind, !.yielded = <<>>, !.read_raised = FALSE,
              !.read_from = IF kind = "csv" THEN CSV_samples(r) ELSE SQL_samples(r)]

\* CSVRepository.__iter__ (122-128): open (FileNotFoundError when nothing
\* was written), the first line is skipped, Message.message_from_list for
\* every further row
CSV_iter(r) ==
    LET b == Read_begin(r, "csv")
    IN  IF r.csv_file = <<>> \/ (Len(r.csv_file) > 1 /\ ~HasAttr("message_from_list"))
        THEN [b EXCEPT !.read_raised = TRUE]
        ELSE [b EXCEPT !.yielded = CSV_samples(r)]

\* SQLRepository.__iter__ (202-204)
SQL_iter(r) == [Read_begin(r, "sql") EXCEPT !.rowid = 0, !.iterating = TRUE]

\* SQLRepository.__next__ (206-220): Message.message() of line 208, then the
\* row whose key is self.rowid, or StopIteration when there is none
SQL_next(r) ==
    IF ~HasAttr("message") \/ ~HasAttr("from_list")
    THEN [r EXCEPT !.iterating = FALSE, !.read_raised = TRUE]
    ELSE IF SQL_conflict(r)
    THEN [r EXCEPT !.rowid = @ + 1,
                   !.yielded = Append(@, r.sql_rows[CHOOSE k \in DOMAIN r.sql_rows :
                                              r.sql_rows[k].rowid = r.rowid].message)]
    ELSE [r EXCEPT !.iterating = FALSE]

\* PlotRepository._handle
Plot_handle(r, m) ==
    IF m.data = None THEN [r EXCEPT !.plot_stop_event = TRUE]
    ELSE [r EXCEPT !.plot_queue = Append(@, to_json(m))]

\* the _handle of the decorator of one kind, and the record that it ran
Sink_handle(kind, r, m) ==
    LET h == CASE kind = "sql" -> SQL_handle(r, m)
               [] kind = "csv" -> CSV_handle(r, m)
               [] kind = "screen" -> Screen_handle(r, m)
               [] OTHER -> Plot_handle(r, m)
    IN  [h EXCEPT !.handled = Append(@, <<kind, m>>)]

\* whether the _handle of a sink writes to its file, database or queue for m
Writes(kind, m) == kind = "screen" \/ kind = "plot" \/ m.data /= None

\* whether the _handle of a sink raises for m: the I/O error of a failing
\* sink, or the refused INSERT of the SQL sink
Raises(kind, bad, r, m) ==
    \/ kind \in bad /\ Writes(kind, m)
    \/ kind = "sql" /\ m.data /= None /\ SQL_conflict(r)

\* RepositoryDecorator.append on the outermost decorator of the chain c
\* (innermost decorator first), with no sink failing: the decorated object
\* does its work first, then the decoration
RECURSIVE Decorator_append(_, _, _)
Decorator_append(c, r, m) ==
    IF c = <<>> THEN Repository_append(r, m)
    ELSE Sink_handle(c[Len(c)], Decorator_append(SubSeq(c, 1, Len(c) - 1), r, m), m)

\* main.py 60-63: logger = Repository().sql(..).csv(..); the decorators that
\* screen_dump() and plot() return are not assigned to logger
MainChain(screen, plot) == <<"sql", "csv">>

(***************************************************************************)
(* State                                                                   *)
(***************************************************************************)
VARIABLES
    \* ---- the run (main.py)
    connection_type,    \* "socket", "shared_memory", "pipe"; "none": chain only
    close_wakes,        \* platform: closing a descriptor fails the call blocked on it
    mainPc,             \* position of the main routine
    thread_stop_event,  \* main.py 74
    proc_stop_event,    \* main.py 73
    \* ---- the Repository chain
    chain,              \* decorator kinds of logger, innermost first
    configured,         \* sink kinds the run was asked to set up
    failing,            \* sinks whose write raises (I/O error)
    repo,               \* state of the decorated Repository
    lock,               \* RepositoryDecorator.lock per kind: holder, 0 if free
    appPc, appMsg, appIdx, appCount,  \* the ingestion threads inside append
    appBuf,             \* rows in the buffer of a thread's open CSV file
    completed,          \* Messages whose append returned
    \* ---- sensors (base_sensor.py) and producer endpoints
    sensorPc, message, ticks,
    sent,               \* per sensor: Messages whose send completed
    \* ---- shared-memory transport
    new_data_flag, mailbox, written,
    srv_message_open, srv_flag_open, smPc,
    \* ---- pipe transport
    pipe_buf, pipe_writers, srv_pipe_open, pipePc,
    \* ---- socket transport
    listening, server_socket_open, listenerPc, pending, client_sockets,
    connected, available, totalsent, wire, peer_closed,
    cs_open, connPc, opening_brackets, closing_brackets, chunks,
    \* ---- release of the endpoints
    shm,                \* the shared-memory producer's two regions
    close_again,        \* per endpoint: calls of close() after the first
    \* ---- calls of the pure functions
    codec,              \* a Message, its encoding and the decoded encoding
    chop                \* a string, chop_json of it and chop_json of that

runVars == <<connection_type, close_wakes, mainPc, thread_stop_event, proc_stop_event>>
cfgVars == <<chain, configured, failing>>
shmVars == <<shm, close_again>>
fnVars == <<codec, chop>>
appVars == <<lock, appPc, appMsg, appIdx, appCount, appBuf, completed>>
sensorVars == <<sensorPc, message, ticks, sent>>
smVars == <<new_data_flag, mailbox, written, srv_message_open, srv_flag_open, smPc>>
pipeVars == <<pipe_buf, pipe_writers, srv_pipe_open, pipePc>>
listenerVars == <<listening, server_socket_open, listenerPc, pending, client_sockets>>
clientVars == <<connected, available, totalsent, wire, peer_closed>>
connVars == <<cs_open, connPc, opening_brackets, closing_brackets, chunks>>
sockVars == <<listenerVars, clientVars, connVars>>

vars == <<runVars, cfgVars, shmVars, fnVars, repo, appVars, sensorVars, smVars, pipeVars, sockVars>>

Sensors == 1..NumSensors

\* the endpoints close() is called on: the producer endpoint of sensor i is
\* i, the consumer endpoint of main.py's server_connections is 0
Endpoints == 0..NumSensors
Threads == 1..NumThreads

NoMessage == Message(9, "none", None, 0)

Range(f) == {f[k] : k \in DOMAIN f}

\* number of places of the sequence s that hold e
Count(e, s) == Cardinality({k \in DOMAIN s : s[k] = e})

(***************************************************************************)
(* Initial values shared by the specifications                             *)
(***************************************************************************)
InitRun(ct, platforms) ==
    /\ connection_type = ct
    /\ close_wakes \in platforms
    /\ mainPc = "input"
    /\ thread_stop_event = FALSE
    /\ proc_stop_event = FALSE

\* SMClientConnection.__init__ (network.py 217-219): two regions created
\* and mapped; posix: SharedMemory.unlink removes the name (elsewhere it does
\* nothing); raised: the last close() of the endpoint raised
InitRelease(started, platforms) ==
    /\ \E p \in platforms :
          shm = [message_open |-> started, message_linked |-> started,
                 flag_open |-> started, flag_linked |-> started,
                 posix |-> p, raised |-> FALSE]
    /\ close_again = [e \in Endpoints |-> 0]

InitApp ==
    /\ repo = EmptyRepo
    /\ lock = [k \in SinkKinds |-> 0]
    /\ appPc = [t \in Threads |-> "idle"]
    /\ appMsg = [t \in Threads |-> NoMessage]
    /\ appIdx = [t \in Threads |-> 0]
    /\ appCount = [t \in Threads |-> 0]
    /\ appBuf = [t \in Threads |-> <<>>]
    /\ completed = <<>>

\* no call of the pure functions is under way
NoCodec == [pc |-> "none", m |-> NoMessage, extra |-> <<>>, text |-> <<>>,
            decoded |-> NoMessage]

NoChop == [pc |-> "none", j |-> <<>>, once |-> <<>>, twice |-> <<>>]

InitFn == codec = NoCodec /\ chop = NoChop

\* the chain main.py builds, no sink failing; options: the values of the
\* command line's --screen_output and --plot
InitMainChain(options) ==
    /\ \E screen \in options, plot \in options :
          /\ chain = MainChain(screen, plot)
          /\ configured = {"sql", "csv"} \cup (IF screen THEN {"screen"} ELSE {})
                                         \cup (IF plot THEN {"plot"} ELSE {})
    /\ failing = {}

\* Sensor.__init__: self.message = Message(id, name, 0)
InitSensors(n) ==
    /\ sensorPc = [i \in Sensors |-> IF i <= n THEN "sleep" ELSE "none"]
    /\ message = [i \in Sensors |-> Message(SensorId(i), SensorName(SensorId(i)), <<"0">>, 0)]
    /\ ticks = [i \in Sensors |-> 0]
    /\ sent = [i \in Sensors |-> <<>>]

\* SMClientConnection.__init__ / SMServerConnection.__init__
InitSM(started) ==
    /\ new_data_flag = 0
    /\ mailbox = [k \in 1..MailboxSize |-> "nul"]
    /\ written = <<>>
    /\ srv_message_open = started
    /\ srv_flag_open = started
    /\ smPc = IF started THEN "top" ELSE "none"

\* Connection.create_pipe_connection, with the processes that hold a copy
\* of the client end
InitPipeHeld(started, holders) ==
    /\ pipe_buf = <<>>
    /\ pipe_writers = IF started THEN holders ELSE {}
    /\ srv_pipe_open = started
    /\ pipePc = IF started THEN "top" ELSE "none"

\* ... as main.py uses it: the parent keeps its copy of the client end when
\* the sensor process gets its own
InitPipe(started) == InitPipeHeld(started, {"parent", "child"})

\* Server.__init__ / ClientConnection.__init__, with the processes that
\* hold no copy of a client socket (absent)
InitSockHeld(started, absent) ==
    /\ listening = FALSE
    /\ server_socket_open = started
    /\ listenerPc = IF started THEN "bind" ELSE "none"
    /\ pending = <<>>
    /\ client_sockets = <<>>
    /\ connected = [i \in Sensors |-> FALSE]
    /\ available = [i \in Sensors |-> TRUE]
    /\ totalsent = [i \in Sensors |-> 0]
    /\ wire = [i \in Sensors |-> <<>>]
    /\ peer_closed = [i \in Sensors |-> absent]
    /\ cs_open = [i \in Sensors |-> FALSE]
    /\ connPc = [i \in Sensors |-> "none"]
    /\ opening_brackets = [i \in Sensors |-> 0]
    /\ closing_brackets = [i \in Sensors |-> 0]
    /\ chunks = [i \in Sensors |-> <<>>]

\* ... as main.py uses it: parent and sensor process both hold the socket
InitSock(started) == InitSockHeld(started, {})

(***************************************************************************)
(* The chain under concurrent ingestion threads                            *)
(*   RepositoryDecorator.append, repository.py 66-69, called from the      *)
(*   loops of network.py 124, 279, 362 (none of them catches)              *)
(***************************************************************************)
\* Decorator chains a caller composes with the factory methods or the
\* constructors
ApiChains == { <<"sql", "csv", "plot">>, <<"screen", "sql", "csv">> }

\* data of the Messages appended in the chain specification
ChainData == {None, <<"0">>}

\* the sinks whose write may raise, at most one at a time
FailingChoices == { {}, {"sql"}, {"csv"} }

InitRepo ==
    /\ InitRun("none", {FALSE})
    /\ InitRelease(FALSE, {TRUE})
    /\ InitApp
    /\ InitFn
    /\ \/ InitMainChain(BOOLEAN)
       \/ /\ chain \in ApiChains
          /\ configured = Range(chain)
          /\ failing \in FailingChoices
    /\ InitSensors(0)
    /\ InitSM(FALSE)
    /\ InitPipe(FALSE)
    /\ InitSock(FALSE)

\* the loop obtains its next Message and calls repository.append
Loop_receive(t) ==
    /\ appPc[t] = "idle"
    /\ appCount[t] < MaxAppends
    /\ \E data \in ChainData :
          appMsg' = [appMsg EXCEPT ![t] = Message(SensorId(t), SensorName(SensorId(t)), data,
                                                   appCount[t] + 1)]
    /\ appCount' = [appCount EXCEPT ![t] = @ + 1]
    /\ appPc' = [appPc EXCEPT ![t] = "append"]
    /\ UNCHANGED <<runVars, cfgVars, shmVars, fnVars, repo, lock, appIdx, appBuf, completed, sensorVars,
                   smVars, pipeVars, sockVars>>

\* repository.py 67 down to Repository.append (31-32): the innermost
\* object appends to its list before any decoration runs
Append_base(t) ==
    /\ appPc[t] = "append"
    /\ repo' = Repository_append(repo, appMsg[t])
    /\ appIdx' = [appIdx EXCEPT ![t] = 1]
    /\ appPc' = [appPc EXCEPT ![t] = "lock"]
    /\ UNCHANGED <<runVars, cfgVars, shmVars, fnVars, lock, appMsg, appCount, appBuf, completed, sensorVars,
                   smVars, pipeVars, sockVars>>

\* threading.Lock.acquire on a lock with the given holder (0: free)
LockFree_always(holder) == TRUE

LockFree(holder) == holder = 0

\* repository.py 68: with self.lock
Append_lock(t) ==
    /\ appPc[t] = "lock"
    /\ LockFree(lock[chain[appIdx[t]]])
    /\ lock' = [lock EXCEPT ![chain[appIdx[t]]] = t]
    /\ appPc' = [appPc EXCEPT ![t] = "handle"]
    /\ UNCHANGED <<runVars, cfgVars, shmVars, fnVars, repo, appMsg, appIdx, appCount, appBuf,
                   completed, sensorVars, smVars, pipeVars, sockVars>>

\* the thread t leaves the _handle of the sink at appIdx[t] with the
\* decorated Repository as r: the lock is released, and the append of the
\* next outer decorator goes on or the outermost append returns
Append_leave(t, r) ==
    /\ lock' = [lock EXCEPT ![chain[appIdx[t]]] = 0]
    /\ repo' = [r EXCEPT !.handled = Append(@, <<chain[appIdx[t]], appMsg[t]>>)]
    /\ IF appIdx[t] = Len(chain)
       THEN /\ appPc' = [appPc EXCEPT ![t] = "idle"]
            /\ completed' = Append(completed, appMsg[t])
            /\ UNCHANGED appIdx
       ELSE /\ appPc' = [appPc EXCEPT ![t] = "lock"]
            /\ appIdx' = [appIdx EXCEPT ![t] = @ + 1]
            /\ UNCHANGED completed

\* repository.py 69: self._handle(message), then the lock is released. An
\* exception of _handle leaves every enclosing append and the loop that
\* called the outermost one. The _handle of the CSV sink for a sample runs
\* up to line 119 here (the file is open, the header is decided and marked
\* as written) and keeps the lock.
Append_handle(t) ==
    LET kind == chain[appIdx[t]]
        m == appMsg[t]
    IN  /\ appPc[t] = "handle"
        /\ IF Raises(kind, failing, repo, m)
           THEN /\ appPc' = [appPc EXCEPT ![t] = "crashed"]
                /\ lock' = [lock EXCEPT ![kind] = 0]
                /\ UNCHANGED <<repo, appIdx, appBuf, completed>>
           ELSE IF kind = "csv" /\ m.data /= None
           THEN /\ appBuf' = [appBuf EXCEPT ![t] = CSV_rows(repo, m)]
                /\ repo' = CSV_mark(repo)
                /\ appPc' = [appPc EXCEPT ![t] = "csv_row"]
                /\ UNCHANGED <<lock, appIdx, completed>>
           ELSE /\ Append_leave(t, Sink_handle(kind, repo, m))
                /\ UNCHANGED appBuf
        /\ UNCHANGED <<runVars, cfgVars, shmVars, fnVars, appMsg, appCount, sensorVars,
                       smVars, pipeVars, sockVars>>

\* repository.py 120 and the end of the with block of line 115: the data
\* row is buffered, the file is closed and takes the buffered rows
Append_csv_row(t) ==
    /\ appPc[t] = "csv_row"
    /\ Append_leave(t, CSV_flush(repo, appBuf[t]))
    /\ appBuf' = [appBuf EXCEPT ![t] = <<>>]
    /\ UNCHANGED <<runVars, cfgVars, shmVars, fnVars, appMsg, appCount, sensorVars,
                   smVars, pipeVars, sockVars>>

NextRepo ==
    \E t \in Threads :
        \/ Loop_receive(t) \/ Append_base(t) \/ Append_lock(t) \/ Append_handle(t)
        \/ Append_csv_row(t)

SpecRepo == InitRepo /\ [][NextRepo]_vars

(***************************************************************************)
(* The chain with a reader that iterates over the SQL sink (a for loop     *)
(* over the Repository, as in the class's doctest) while threads append    *)
(***************************************************************************)
\* iter(rep): SQLRepository.__iter__
Reader_iter ==
    /\ "sql" \in Range(chain)
    /\ ~repo.iterating
    /\ repo' = SQL_iter(repo)
    /\ UNCHANGED <<runVars, cfgVars, shmVars, fnVars, appVars, sensorVars, smVars, pipeVars, sockVars>>

\* iter(rep) on the CSV sink: CSVRepository.__iter__ reads the whole file
Reader_csv_iter ==
    /\ "csv" \in Range(chain)
    /\ ~repo.iterating
    /\ repo' = CSV_iter(repo)
    /\ UNCHANGED <<runVars, cfgVars, shmVars, fnVars, appVars, sensorVars, smVars, pipeVars, sockVars>>

\* next(rep): SQLRepository.__next__
Reader_next ==
    /\ repo.iterating
    /\ repo' = SQL_next(repo)
    /\ UNCHANGED <<runVars, cfgVars, shmVars, fnVars, appVars, sensorVars, smVars, pipeVars, sockVars>>

NextIter == NextRepo \/ Reader_iter \/ Reader_next \/ Reader_csv_iter

InitIter ==
    /\ InitRun("none", {FALSE})
    /\ InitRelease(FALSE, {TRUE})
    /\ InitApp
    /\ InitFn
    /\ InitMainChain({FALSE})
    /\ InitSensors(0)
    /\ InitSM(FALSE)
    /\ InitPipe(FALSE)
    /\ InitSock(FALSE)

SpecIter == InitIter /\ [][NextIter]_vars

\* the chains that end in the CSV sink, no sink failing
CsvChains == { <<"csv">>, <<"sql", "csv">> }

InitCsv ==
    /\ InitRun("none", {FALSE})
    /\ InitRelease(FALSE, {TRUE})
    /\ InitApp
    /\ InitFn
    /\ chain \in CsvChains
    /\ configured = Range(chain)
    /\ failing = {}
    /\ InitSensors(0)
    /\ InitSM(FALSE)
    /\ InitPipe(FALSE)
    /\ InitSock(FALSE)

SpecCsv == InitCsv /\ [][NextRepo]_vars

(***************************************************************************)
(* The run: main.py, the sensors and the three transports                  *)
(***************************************************************************)
\* repository.append(message) called from an ingestion loop of the run:
\* the whole chain of main.py handles the Message
Forward(m) == repo' = Decorator_append(chain, repo, m)

\* the sensors main.py started
Running(i) == sensorPc[i] /= "none"

RECURSIVE SumTo(_, _)
SumTo(f, n) == IF n = 0 THEN 0 ELSE f[n] + SumTo(f, n - 1)

\* samples acquired so far by all sensors
TotalTicks == SumTo(ticks, NumSensors)

\* the processes that hold a copy of the descriptor of a sensor's client
\* socket or pipe end: main.py creates the endpoint in the parent, the
\* sensor process gets a copy
Holders == {"parent", "child"}

\* ---- Sensor.run (base_sensor.py 19-29) -----------------------------------
\* time.sleep, the stop check, acquire and the is_available check
Sensor_wake(i) ==
    /\ sensorPc[i] = "sleep"
    /\ IF proc_stop_event
       THEN /\ sensorPc' = [sensorPc EXCEPT ![i] = "close"]
            /\ UNCHANGED <<message, ticks>>
       ELSE /\ TotalTicks < MaxTicks
            /\ \E data \in ProbeValues(connection_type) :
                  message' = [message EXCEPT ![i] =
                      Message(SensorId(i), SensorName(SensorId(i)), data, ticks[i] + 1)]
            /\ ticks' = [ticks EXCEPT ![i] = @ + 1]
            /\ sensorPc' = [sensorPc EXCEPT ![i] =
                  IF connection_type = "socket" /\ ~available[i] THEN "done"
                  ELSE IF connection_type = "shared_memory" THEN "send_spin"
                  ELSE "send"]
    /\ UNCHANGED <<runVars, cfgVars, shmVars, fnVars, repo, appVars, sent, smVars, pipeVars, sockVars>>

\* self.connection.close() of the stopped sensor, in the sensor's process:
\*   SMClientConnection.close (network.py 238-244) closes and unlinks the
\*     sensor's mapping; the consumer's own mapping stays valid;
\*   PipeClientConnection.close (334-336) and ClientConnection.close (85-88)
\*     close the sensor's copy of the descriptor; the copy of the parent
\*     process stays open, so the peer sees no end of stream.
\* SMClientConnection.close (network.py 238-244) on the regions e:
\* message.close(), message.unlink(), new_data_flag.close(),
\* new_data_flag.unlink(). shm_unlink of a name that is gone raises
\* FileNotFoundError, which leaves close() at that line.
SMClient_close(e) ==
    LET c1 == [e EXCEPT !.message_open = FALSE]
        c2 == [c1 EXCEPT !.message_linked = ~e.posix /\ @, !.flag_open = FALSE]
    IN  IF e.posix /\ ~e.message_linked THEN [c1 EXCEPT !.raised = TRUE]
        ELSE IF e.posix /\ ~e.flag_linked THEN [c2 EXCEPT !.raised = TRUE]
        ELSE [c2 EXCEPT !.flag_linked = ~e.posix /\ @, !.raised = FALSE]

\* self.connection.close() on the producer endpoint of sensor i, called in
\* the sensor's process: what it leaves of the descriptors and regions
Client_close(i) ==
    [pipe_writers |-> IF connection_type = "pipe" THEN pipe_writers \ {"child"}
                      ELSE pipe_writers,
     peer_closed |-> IF connection_type = "socket"
                     THEN [peer_closed EXCEPT ![i] = @ \cup {"child"}]
                     ELSE peer_closed,
     shm |-> IF connection_type = "shared_memory" THEN SMClient_close(shm) ELSE shm]

Sensor_close(i) ==
    /\ sensorPc[i] = "close"
    /\ sensorPc' = [sensorPc EXCEPT ![i] = IF Client_close(i).shm.raised THEN "crashed"
                                           ELSE "done"]
    /\ pipe_writers' = Client_close(i).pipe_writers
    /\ peer_closed' = Client_close(i).peer_closed
    /\ shm' = Client_close(i).shm
    /\ UNCHANGED <<runVars, cfgVars, close_again, fnVars, repo, appVars, message, ticks, sent, smVars,
                   pipe_buf, srv_pipe_open, pipePc, listenerVars,
                   connected, available, totalsent, wire, connVars>>

\* ---- SMClientConnection.send (network.py 222-233) ------------------------
\* 223: while self.new_data_flag.buf[0]
MustWait_never(flag) == FALSE

MustWait(flag) == flag /= 0

\* 229: msglen > len(self.message.buf)
TooLong_from_capacity(msglen, capacity) == msglen >= capacity

TooLong(msglen, capacity) == msglen > capacity

\* 223-225: one check of the flag; sleeps and checks again while it is set
SM_send_wait(i) ==
    /\ connection_type = "shared_memory"
    /\ sensorPc[i] = "send_spin"
    /\ sensorPc' = [sensorPc EXCEPT ![i] = IF MustWait(new_data_flag) THEN @ ELSE "send_write"]
    /\ UNCHANGED <<runVars, cfgVars, shmVars, fnVars, repo, appVars, message, ticks, sent, smVars,
                   pipeVars, sockVars>>

\* 227-232: encode, the capacity check (MemoryError leaves send and, uncaught
\* in Sensor.run, ends the sensor process), the write of the first msglen
\* places of the mailbox
SM_send_write(i) ==
    LET msg == to_json(message[i])
        msglen == Len(msg)
    IN  /\ connection_type = "shared_memory"
        /\ sensorPc[i] = "send_write"
        /\ IF TooLong(msglen, Len(mailbox))
           THEN /\ sensorPc' = [sensorPc EXCEPT ![i] = "crashed"]
                /\ UNCHANGED <<mailbox, written>>
           ELSE /\ mailbox' = [k \in 1..Len(mailbox) |->
                                  IF k <= msglen THEN msg[k] ELSE mailbox[k]]
                /\ written' = Append(written, message[i])
                /\ sensorPc' = [sensorPc EXCEPT ![i] = "send_flag"]
        /\ UNCHANGED <<runVars, cfgVars, shmVars, fnVars, repo, appVars, message, ticks, sent,
                       new_data_flag, srv_message_open, srv_flag_open, smPc,
                       pipeVars, sockVars>>

\* 233: the flag is set, send returns
SM_send_flag(i) ==
    /\ connection_type = "shared_memory"
    /\ sensorPc[i] = "send_flag"
    /\ new_data_flag' = 1
    /\ sent' = [sent EXCEPT ![i] = Append(@, message[i])]
    /\ sensorPc' = [sensorPc EXCEPT ![i] = "sleep"]
    /\ UNCHANGED <<runVars, cfgVars, shmVars, fnVars, repo, appVars, message, ticks,
                   mailbox, written, srv_message_open, srv_flag_open, smPc,
                   pipeVars, sockVars>>

\* ---- SMServerConnection.chop_json (network.py 287-318) -------------------
\* the loop of lines 308-317 from index ind on (indices from 1, 0: not
\* found); the result is <<start_ind, end_ind>>
RECURSIVE chop_scan(_, _, _, _, _)
chop_scan(j, ind, opening, closing, start_ind) ==
    IF ind > Len(j) THEN <<start_ind, 0>>
    ELSE LET ch == j[ind]
             o2 == IF ch = "{" THEN opening + 1 ELSE opening
             s2 == IF ch = "{" /\ start_ind = 0 THEN ind ELSE start_ind
             c2 == IF ch = "}" THEN closing + 1 ELSE closing
         IN  IF ch = "}" /\ o2 = c2 THEN <<s2, ind>>
             ELSE chop_scan(j, ind + 1, o2, c2, s2)

\* the substring from the first opening bracket to the last closing bracket
chop_to_last_bracket(j) ==
    LET opens == {k \in DOMAIN j : j[k] = "{"}
        closes == {k \in DOMAIN j : j[k] = "}"}
    IN  IF opens = {} \/ closes = {} THEN <<>>
        ELSE SubSeq(j, CHOOSE a \in opens : \A k \in opens : a <= k,
                       CHOOSE b \in closes : \A k \in closes : k <= b)

\* j[start_ind:end_ind+1]; the slice is empty when either index is -1
chop_json(j) ==
    LET se == chop_scan(j, 1, 0, 0, 0)
    IN  IF se[1] = 0 \/ se[2] = 0 THEN <<>> ELSE SubSeq(j, se[1], se[2])

\* ---- SMServerConnection.run (network.py 257-280) -------------------------
\* 260-264: the stop check at the top of the loop
SM_run_top ==
    /\ smPc = "top"
    /\ IF thread_stop_event
       THEN /\ srv_message_open' = FALSE
            /\ srv_flag_open' = FALSE
            /\ smPc' = "done"
       ELSE /\ smPc' = "spin"
            /\ UNCHANGED <<srv_message_open, srv_flag_open>>
    /\ UNCHANGED <<runVars, cfgVars, shmVars, fnVars, repo, appVars, sensorVars,
                   new_data_flag, mailbox, written, pipeVars, sockVars>>

\* 266-275: one check of the flag; sleeps and checks again while it is
\* clear; the TypeError of a closed flag region ends run
SM_run_wait ==
    /\ smPc = "spin"
    /\ IF ~srv_flag_open
       THEN /\ srv_message_open' = FALSE
            /\ smPc' = "done"
       ELSE /\ smPc' = IF new_data_flag = 0 THEN "spin" ELSE "decode"
            /\ UNCHANGED srv_message_open
    /\ UNCHANGED <<runVars, cfgVars, shmVars, fnVars, repo, appVars, sensorVars,
                   new_data_flag, mailbox, written, srv_flag_open, pipeVars, sockVars>>

\* 278-279: str() of the whole mailbox, chop_json, decode, append. The
\* TypeError of a closed mailbox region and the error of json.loads are not
\* caught: they end the thread.
SM_run_forward ==
    LET m == chop_json(mailbox)
    IN  /\ smPc = "decode"
        /\ IF srv_message_open /\ Decodable(m)
           THEN /\ Forward(from_json_str(m))
                /\ smPc' = "clear"
           ELSE /\ smPc' = "crashed"
                /\ UNCHANGED repo
        /\ UNCHANGED <<runVars, cfgVars, shmVars, fnVars, appVars, sensorVars,
                       new_data_flag, mailbox, written, srv_message_open, srv_flag_open,
                       pipeVars, sockVars>>

\* 280: self.new_data_flag.buf[0] = 0
FlagKept(flag) == flag

FlagCleared(flag) == 0

\* 280: the flag is cleared (TypeError, uncaught, when the region is closed)
SM_run_clear ==
    /\ smPc = "clear"
    /\ IF srv_flag_open
       THEN /\ new_data_flag' = FlagCleared(new_data_flag)
            /\ smPc' = "top"
       ELSE /\ smPc' = "crashed"
            /\ UNCHANGED new_data_flag
    /\ UNCHANGED <<runVars, cfgVars, shmVars, fnVars, repo, appVars, sensorVars,
                   mailbox, written, srv_message_open, srv_flag_open, pipeVars, sockVars>>

SM_run == SM_run_top \/ SM_run_wait \/ SM_run_forward \/ SM_run_clear

\* ---- PipeClientConnection.send (network.py 328-330) ----------------------
Pipe_send(i) ==
    /\ connection_type = "pipe"
    /\ sensorPc[i] = "send"
    /\ pipe_buf' = Append(pipe_buf, to_json(message[i]))
    /\ sent' = [sent EXCEPT ![i] = Append(@, message[i])]
    /\ sensorPc' = [sensorPc EXCEPT ![i] = "sleep"]
    /\ UNCHANGED <<runVars, cfgVars, shmVars, fnVars, repo, appVars, message, ticks, smVars,
                   pipe_writers, srv_pipe_open, pipePc, sockVars>>

\* ---- PipeServerConnection.run (network.py 347-362) -----------------------
\* 350-356: the stop check, then the call of pipe.recv (OSError, uncaught,
\* when the handle is already closed)
Pipe_run_top ==
    /\ pipePc = "top"
    /\ IF thread_stop_event
       THEN /\ srv_pipe_open' = FALSE
            /\ pipePc' = "done"
       ELSE /\ pipePc' = IF srv_pipe_open THEN "recv" ELSE "crashed"
            /\ UNCHANGED srv_pipe_open
    /\ UNCHANGED <<runVars, cfgVars, shmVars, fnVars, repo, appVars, sensorVars, smVars,
                   pipe_buf, pipe_writers, sockVars>>

\* 356-362: pipe.recv returns. It blocks until a message is there, every
\* copy of the writing end is closed (EOFError, caught), or, where the
\* platform does that, the handle it reads is closed under it.
Pipe_run_recv ==
    /\ pipePc = "recv"
    /\ pipe_buf /= <<>> \/ pipe_writers = {} \/ (~srv_pipe_open /\ close_wakes)
    /\ IF pipe_buf /= <<>>
       THEN /\ pipe_buf' = Tail(pipe_buf)
            /\ IF Decodable(Head(pipe_buf))
               THEN /\ Forward(from_json_str(Head(pipe_buf)))
                    /\ pipePc' = "top"
               ELSE /\ pipePc' = "crashed"
                    /\ UNCHANGED repo
            /\ UNCHANGED srv_pipe_open
       ELSE /\ pipePc' = IF pipe_writers = {} THEN "done" ELSE "crashed"
            /\ srv_pipe_open' = IF pipe_writers = {} THEN FALSE ELSE srv_pipe_open
            /\ UNCHANGED <<pipe_buf, repo>>
    /\ UNCHANGED <<runVars, cfgVars, shmVars, fnVars, appVars, sensorVars, smVars, pipe_writers, sockVars>>

Pipe_run == Pipe_run_top \/ Pipe_run_recv

\* ---- ClientConnection.send (network.py 64-83) -----------------------------
\* 70-71, 64-67: the lazy connect of the first send. ConnectionRefusedError,
\* uncaught in send and in Sensor.run, ends the sensor process.
Sock_connect(i) ==
    /\ connection_type = "socket"
    /\ sensorPc[i] = "send"
    /\ ~connected[i]
    /\ IF listening /\ server_socket_open
       THEN /\ pending' = Append(pending, i)
            /\ connected' = [connected EXCEPT ![i] = TRUE]
            /\ UNCHANGED sensorPc
       ELSE /\ sensorPc' = [sensorPc EXCEPT ![i] = "crashed"]
            /\ UNCHANGED <<pending, connected>>
    /\ UNCHANGED <<runVars, cfgVars, shmVars, fnVars, repo, appVars, message, ticks, sent, smVars, pipeVars,
                   listening, server_socket_open, listenerPc, client_sockets,
                   available, totalsent, wire, peer_closed, connVars>>

\* the server side of connection i has been accepted and closed
ServerSideClosed(i) == i \in Range(client_sockets) /\ ~cs_open[i]

\* the sizes one sckt.send of a buffer of n bytes may report: all of it, or
\* a part (never 0 for a non-empty buffer, so line 78-80 is not reached)
SendSizes(n) == {n} \cup {k \in {PartialSend} : k < n}

\* 76-83: one sckt.send of the rest of the payload; the error of a send to a
\* connection the server closed is not caught. send returns after the send
\* that completes the payload.
Sock_send(i) ==
    LET msg == to_json(message[i])
        msglen == Len(msg)
    IN  /\ connection_type = "socket"
        /\ sensorPc[i] = "send"
        /\ connected[i]
        /\ IF ServerSideClosed(i)
           THEN /\ sensorPc' = [sensorPc EXCEPT ![i] = "crashed"]
                /\ UNCHANGED <<totalsent, wire, sent>>
           ELSE \E n \in SendSizes(msglen - totalsent[i]) :
                  /\ wire' = [wire EXCEPT ![i] =
                                 @ \o SubSeq(msg, totalsent[i] + 1, totalsent[i] + n)]
                  /\ IF totalsent[i] + n < msglen
                     THEN /\ totalsent' = [totalsent EXCEPT ![i] = @ + n]
                          /\ UNCHANGED <<sensorPc, sent>>
                     ELSE /\ totalsent' = [totalsent EXCEPT ![i] = 0]
                          /\ sent' = [sent EXCEPT ![i] = Append(@, message[i])]
                          /\ sensorPc' = [sensorPc EXCEPT ![i] = "sleep"]
        /\ UNCHANGED <<runVars, cfgVars, shmVars, fnVars, repo, appVars, message, ticks, smVars, pipeVars,
                       listenerVars, connected, available, peer_closed, connVars>>

\* ---- Server.run (network.py 184-202) --------------------------------------
\* 186-187
Listener_bind ==
    /\ listenerPc = "bind"
    /\ listening' = TRUE
    /\ listenerPc' = "top"
    /\ UNCHANGED <<runVars, cfgVars, shmVars, fnVars, repo, appVars, sensorVars, smVars, pipeVars,
                   server_socket_open, pending, client_sockets, clientVars, connVars>>

\* 190-196: the stop check, which closes the sockets and does not leave the
\* loop, then the call of accept: OSError, uncaught, on a closed socket
Listener_top ==
    /\ listenerPc = "top"
    /\ IF thread_stop_event
       THEN /\ server_socket_open' = FALSE
            /\ cs_open' = [i \in Sensors |-> cs_open[i] /\ i \notin Range(client_sockets)]
            /\ listenerPc' = "crashed"
       ELSE /\ listenerPc' = IF server_socket_open THEN "accept" ELSE "crashed"
            /\ UNCHANGED <<server_socket_open, cs_open>>
    /\ UNCHANGED <<runVars, cfgVars, shmVars, fnVars, repo, appVars, sensorVars, smVars, pipeVars,
                   listening, pending, client_sockets, clientVars,
                   connPc, opening_brackets, closing_brackets, chunks>>

\* 196-202: accept returns. It blocks until a connection is pending or,
\* where the platform does that, the listening socket is closed under it.
\* The thread of the new ServerConnection starts at its stop check.
Listener_accept ==
    /\ listenerPc = "accept"
    /\ pending /= <<>> \/ (~server_socket_open /\ close_wakes)
    /\ IF pending /= <<>>
       THEN /\ pending' = Tail(pending)
            /\ client_sockets' = Append(client_sockets, Head(pending))
            /\ cs_open' = [cs_open EXCEPT ![Head(pending)] = TRUE]
            /\ connPc' = [connPc EXCEPT ![Head(pending)] = "top"]
            /\ listenerPc' = "top"
       ELSE /\ listenerPc' = "crashed"
            /\ UNCHANGED <<pending, client_sockets, cs_open, connPc>>
    /\ UNCHANGED <<runVars, cfgVars, shmVars, fnVars, repo, appVars, sensorVars, smVars, pipeVars,
                   listening, server_socket_open, clientVars,
                   opening_brackets, closing_brackets, chunks>>

Listener == Listener_bind \/ Listener_top \/ Listener_accept

\* ---- ServerConnection.__call__ / __read (network.py 115-153) --------------
\* the call of sckt.recv: the thread blocks in it, or OSError (uncaught) on
\* a socket that is already closed
RecvCall(i, loop) == IF cs_open[i] THEN loop ELSE "crashed"

\* 120-124, 130-137: the stop check; otherwise __read starts and calls recv
Conn_top(i) ==
    /\ connPc[i] = "top"
    /\ IF thread_stop_event
       THEN /\ connPc' = [connPc EXCEPT ![i] = "done"]
       ELSE /\ connPc' = [connPc EXCEPT ![i] = RecvCall(i, "read1")]
    /\ opening_brackets' = [opening_brackets EXCEPT ![i] = 0]
    /\ closing_brackets' = [closing_brackets EXCEPT ![i] = 0]
    /\ chunks' = [chunks EXCEPT ![i] = <<>>]
    /\ UNCHANGED <<runVars, cfgVars, shmVars, fnVars, repo, appVars, sensorVars, smVars, pipeVars,
                   listenerVars, clientVars, cs_open>>

\* 138-139, 147-148: raise RuntimeError on b''; nothing catches it, the
\* thread that was at pc ends
BrokenRead_retry(pc) == pc

BrokenRead(pc) == "crashed"

\* every holder of the peer's descriptor has closed it and nothing is left
\* to read: recv returns b''
EndOfStream(i) == wire[i] = <<>> /\ peer_closed[i] = Holders

\* 137-153, 124: recv returns a chunk (any non-empty part of what has
\* arrived), b'' (RuntimeError) or, where the platform does that, fails
\* because the socket was closed under it. The brackets of the chunk are
\* counted; the first loop goes on until an opening bracket was seen, the
\* second while more were opened than closed; then the chunks are joined,
\* decoded (the error of json.loads is not caught) and appended.
Conn_recv(i) ==
    /\ connPc[i] \in {"read1", "read2"}
    /\ wire[i] /= <<>> \/ EndOfStream(i) \/ (~cs_open[i] /\ close_wakes)
    /\ IF wire[i] /= <<>>
       THEN \E n \in 1..Len(wire[i]) :
              LET chunk == SubSeq(wire[i], 1, n)
                  ob == opening_brackets[i] + Count("{", chunk)
                  cb == closing_brackets[i] + Count("}", chunk)
                  all == chunks[i] \o chunk
              IN  /\ wire' = [wire EXCEPT ![i] = SubSeq(@, n + 1, Len(@))]
                  /\ opening_brackets' = [opening_brackets EXCEPT ![i] = ob]
                  /\ closing_brackets' = [closing_brackets EXCEPT ![i] = cb]
                  /\ chunks' = [chunks EXCEPT ![i] = all]
                  /\ IF ob = 0
                     THEN /\ connPc' = [connPc EXCEPT ![i] = RecvCall(i, "read1")]
                          /\ UNCHANGED repo
                     ELSE IF ob > cb
                     THEN /\ connPc' = [connPc EXCEPT ![i] = RecvCall(i, "read2")]
                          /\ UNCHANGED repo
                     ELSE IF Decodable(all)
                     THEN /\ Forward(from_json_str(all))
                          /\ connPc' = [connPc EXCEPT ![i] = "top"]
                     ELSE /\ connPc' = [connPc EXCEPT ![i] = "crashed"]
                          /\ UNCHANGED repo
       ELSE /\ connPc' = [connPc EXCEPT ![i] = BrokenRead(@)]
            /\ UNCHANGED <<wire, opening_brackets, closing_brackets, chunks, repo>>
    /\ UNCHANGED <<runVars, cfgVars, shmVars, fnVars, appVars, sensorVars, smVars, pipeVars,
                   listenerVars, connected, available, totalsent, peer_closed, cs_open>>

Conn(i) == Conn_top(i) \/ Conn_recv(i)

\* ---- main.py 127-143 ------------------------------------------------------
\* 129
Main_set_thread_stop ==
    /\ mainPc = "input"
    /\ thread_stop_event' = TRUE
    /\ mainPc' = "set_proc"
    /\ UNCHANGED <<connection_type, close_wakes, proc_stop_event, cfgVars, shmVars, fnVars, repo, appVars,
                   sensorVars, smVars, pipeVars, sockVars>>

\* 130
Main_set_proc_stop ==
    /\ mainPc = "set_proc"
    /\ proc_stop_event' = TRUE
    /\ mainPc' = "join_sensors"
    /\ UNCHANGED <<connection_type, close_wakes, thread_stop_event, cfgVars, shmVars, fnVars, repo, appVars,
                   sensorVars, smVars, pipeVars, sockVars>>

\* 132-133: p.join() returns when the process has ended, also by an exception
Main_join_sensors ==
    /\ mainPc = "join_sensors"
    /\ \A i \in Sensors : Running(i) => sensorPc[i] \in {"done", "crashed"}
    /\ mainPc' = "close_servers"
    /\ UNCHANGED <<connection_type, close_wakes, thread_stop_event, proc_stop_event,
                   cfgVars, shmVars, fnVars, repo, appVars, sensorVars, smVars, pipeVars, sockVars>>

\* 137-138 with SMServerConnection.close (282-285): self.message.close()
Main_close_sm_message ==
    /\ mainPc = "close_servers"
    /\ connection_type = "shared_memory"
    /\ srv_message_open' = FALSE
    /\ mainPc' = "close_flag"
    /\ UNCHANGED <<connection_type, close_wakes, thread_stop_event, proc_stop_event,
                   cfgVars, shmVars, fnVars, repo, appVars, sensorVars,
                   new_data_flag, mailbox, written, srv_flag_open, smPc, pipeVars, sockVars>>

\* ... then self.new_data_flag.close()
Main_close_sm_flag ==
    /\ mainPc = "close_flag"
    /\ srv_flag_open' = FALSE
    /\ mainPc' = "join_servers"
    /\ UNCHANGED <<connection_type, close_wakes, thread_stop_event, proc_stop_event,
                   cfgVars, shmVars, fnVars, repo, appVars, sensorVars,
                   new_data_flag, mailbox, written, srv_message_open, smPc, pipeVars, sockVars>>

\* 137-138 with PipeServerConnection.close (364-366)
Main_close_pipe ==
    /\ mainPc = "close_servers"
    /\ connection_type = "pipe"
    /\ srv_pipe_open' = FALSE
    /\ mainPc' = "join_servers"
    /\ UNCHANGED <<connection_type, close_wakes, thread_stop_event, proc_stop_event,
                   cfgVars, shmVars, fnVars, repo, appVars, sensorVars, smVars,
                   pipe_buf, pipe_writers, pipePc, sockVars>>

\* 137-138 with Server.close (203-207): the one entry of server_connections
\* of the socket variant is the listener
Main_close_server ==
    /\ mainPc = "close_servers"
    /\ connection_type = "socket"
    /\ server_socket_open' = FALSE
    /\ cs_open' = [i \in Sensors |-> cs_open[i] /\ i \notin Range(client_sockets)]
    /\ mainPc' = "join_servers"
    /\ UNCHANGED <<connection_type, close_wakes, thread_stop_event, proc_stop_event,
                   cfgVars, shmVars, fnVars, repo, appVars, sensorVars, smVars, pipeVars,
                   listening, listenerPc, pending, client_sockets, clientVars,
                   connPc, opening_brackets, closing_brackets, chunks>>

\* the threads of main.py's server_threads have ended
ServerThreadsEnded ==
    CASE connection_type = "shared_memory" -> smPc \in {"done", "crashed"}
      [] connection_type = "pipe" -> pipePc \in {"done", "crashed"}
      [] OTHER -> listenerPc \in {"done", "crashed"}

\* 140-141
Main_join_servers ==
    /\ mainPc = "join_servers"
    /\ ServerThreadsEnded
    /\ mainPc' = "done"
    /\ UNCHANGED <<connection_type, close_wakes, thread_stop_event, proc_stop_event,
                   cfgVars, shmVars, fnVars, repo, appVars, sensorVars, smVars, pipeVars, sockVars>>

InitSM1 ==
    /\ InitRun("shared_memory", BOOLEAN)
    /\ InitRelease(TRUE, BOOLEAN)
    /\ InitApp /\ InitFn /\ InitMainChain({FALSE})
    /\ InitSensors(1) /\ InitSM(TRUE) /\ InitPipe(FALSE) /\ InitSock(FALSE)

InitPipe1 ==
    /\ InitRun("pipe", BOOLEAN)
    /\ InitRelease(FALSE, {TRUE})
    /\ InitApp /\ InitFn /\ InitMainChain({FALSE})
    /\ InitSensors(1) /\ InitSM(FALSE) /\ InitPipe(TRUE) /\ InitSock(FALSE)

InitSocket ==
    /\ InitRun("socket", BOOLEAN)
    /\ InitRelease(FALSE, {TRUE})
    /\ InitApp /\ InitFn /\ InitMainChain({FALSE})
    /\ InitSensors(NumSensors) /\ InitSM(FALSE) /\ InitPipe(FALSE) /\ InitSock(TRUE)

\* main.py 65-100: one transport per run
Init == InitSM1 \/ InitPipe1 \/ InitSocket

Main == \/ Main_set_thread_stop \/ Main_set_proc_stop \/ Main_join_sensors
        \/ Main_close_sm_message \/ Main_close_sm_flag \/ Main_close_pipe
        \/ Main_close_server
        \/ Main_join_servers

Sensor(i) == \/ Sensor_wake(i) \/ Sensor_close(i)
             \/ SM_send_wait(i) \/ SM_send_write(i) \/ SM_send_flag(i)
             \/ Pipe_send(i)
             \/ Sock_connect(i) \/ Sock_send(i)

Next == \/ Main
        \/ \E i \in Sensors : Sensor(i)
        \/ SM_run
        \/ Pipe_run
        \/ Listener
        \/ \E i \in Sensors : Conn(i)

Spec == Init /\ [][Next]_vars

(***************************************************************************)
(* The run with close() called again on endpoints that were closed: by the *)
(* owner of the producer endpoint after the sensor's own close(), and on   *)
(* the consumer endpoint after the close() of main.py 137-138.             *)
(***************************************************************************)
Close_again_producer(i) ==
    /\ sensorPc[i] = "done"
    /\ close_again[i] < MaxCloses
    /\ close_again' = [close_again EXCEPT ![i] = @ + 1]
    /\ pipe_writers' = Client_close(i).pipe_writers
    /\ peer_closed' = Client_close(i).peer_closed
    /\ shm' = Client_close(i).shm
    /\ UNCHANGED <<runVars, cfgVars, fnVars, repo, appVars, sensorVars, smVars,
                   pipe_buf, srv_pipe_open, pipePc, listenerVars,
                   connected, available, totalsent, wire, connVars>>

\* SMServerConnection.close (282-285), PipeServerConnection.close (364-366),
\* Server.close (203-207)
Close_again_consumer ==
    /\ mainPc \in {"join_servers", "done"}
    /\ close_again[0] < MaxCloses
    /\ close_again' = [close_again EXCEPT ![0] = @ + 1]
    /\ srv_message_open' = (connection_type /= "shared_memory" /\ srv_message_open)
    /\ srv_flag_open' = (connection_type /= "shared_memory" /\ srv_flag_open)
    /\ srv_pipe_open' = (connection_type /= "pipe" /\ srv_pipe_open)
    /\ server_socket_open' = (connection_type /= "socket" /\ server_socket_open)
    /\ cs_open' = IF connection_type = "socket"
                  THEN [i \in Sensors |-> cs_open[i] /\ i \notin Range(client_sockets)]
                  ELSE cs_open
    /\ UNCHANGED <<runVars, cfgVars, shm, fnVars, repo, appVars, sensorVars,
                   new_data_flag, mailbox, written, smPc,
                   pipe_buf, pipe_writers, pipePc,
                   listening, listenerPc, pending, client_sockets, clientVars,
                   connPc, opening_brackets, closing_brackets, chunks>>

NextClose ==
    \/ Next
    \/ \E i \in Sensors : Close_again_producer(i)
    \/ Close_again_consumer

SpecClose == Init /\ [][NextClose]_vars

(***************************************************************************)
(* The endpoints with the producer endpoint held by one process only: the  *)
(* Connection factories called in the process that sends (or the sender    *)
(* run as a thread), so that the sender's close() is the last close of its *)
(* descriptor and the consumer sees the end of the stream.                 *)
(***************************************************************************)
InitOwnedPipe ==
    /\ InitRun("pipe", BOOLEAN)
    /\ InitRelease(FALSE, {TRUE})
    /\ InitApp /\ InitFn /\ InitMainChain({FALSE})
    /\ InitSensors(1) /\ InitSM(FALSE) /\ InitPipeHeld(TRUE, {"child"}) /\ InitSock(FALSE)

InitOwnedSocket ==
    /\ InitRun("socket", BOOLEAN)
    /\ InitRelease(FALSE, {TRUE})
    /\ InitApp /\ InitFn /\ InitMainChain({FALSE})
    /\ InitSensors(NumSensors) /\ InitSM(FALSE) /\ InitPipe(FALSE)
    /\ InitSockHeld(TRUE, {"parent"})

InitOwned == InitSM1 \/ InitOwnedPipe \/ InitOwnedSocket

SpecOwned == InitOwned /\ [][Next]_vars

(***************************************************************************)
(* The shared-memory transport with the sensors stopped alone: of the two  *)
(* events of main.py 73-74 only the one of the sensor processes is set,    *)
(* the consumer thread's event stays clear and its close() is not called.  *)
(***************************************************************************)
\* proc_stop_event.set() without thread_stop_event.set()
Eos_stop_sensors ==
    /\ ~proc_stop_event
    /\ proc_stop_event' = TRUE
    /\ UNCHANGED <<connection_type, close_wakes, mainPc, thread_stop_event, cfgVars, shmVars,
                   fnVars, repo, appVars, sensorVars, smVars, pipeVars, sockVars>>

NextEos ==
    \/ Eos_stop_sensors
    \/ \E i \in Sensors :
          \/ Sensor_wake(i) \/ Sensor_close(i)
          \/ SM_send_wait(i) \/ SM_send_write(i) \/ SM_send_flag(i)
    \/ SM_run

SpecEos == InitSM1 /\ [][NextEos]_vars

(***************************************************************************)
(* Message.to_json and Message.from_json_str applied to one Message: the   *)
(* encoded object is decoded as it is, or with a member of an unknown key  *)
(* that the encoder of a peer has put before or behind the Message's own   *)
(***************************************************************************)
\* the Messages that are encoded: samples and control Messages
CodecMessages ==
    { Message(id, SensorName(id), data, t) :
        id \in 0..MaxId, data \in {None, Ones(1), Ones(2)}, t \in 1..MaxTicks }

\* members of a key that is no attribute of Message
UnknownMember == <<"unit", <<"string", "C">> >>

CodecExtras == { [front |-> <<>>, back |-> <<>>],
                 [front |-> <<UnknownMember>>, back |-> <<>>],
                 [front |-> <<>>, back |-> <<UnknownMember>>] }

InitCodec ==
    /\ InitRun("none", {FALSE})
    /\ InitRelease(FALSE, {TRUE})
    /\ InitApp
    /\ InitMainChain({FALSE})
    /\ InitSensors(0)
    /\ InitSM(FALSE)
    /\ InitPipe(FALSE)
    /\ InitSock(FALSE)
    /\ chop = NoChop
    /\ \E m \in CodecMessages, extra \in CodecExtras :
          codec = [NoCodec EXCEPT !.pc = "message", !.m = m, !.extra = extra]

\* m.to_json(); the object reaches the decoder with the extra members
Codec_to_json ==
    /\ codec.pc = "message"
    /\ codec' = [codec EXCEPT !.pc = "encoded",
                              !.text = codec.extra.front \o json_dumps(codec.m)
                                           \o codec.extra.back]
    /\ UNCHANGED <<runVars, cfgVars, shmVars, chop, repo, appVars, sensorVars, smVars,
                   pipeVars, sockVars>>

\* Message.from_json_str of the encoded object
Codec_from_json_str ==
    /\ codec.pc = "encoded"
    /\ codec' = [codec EXCEPT !.pc = "decoded", !.decoded = from_json_members(codec.text)]
    /\ UNCHANGED <<runVars, cfgVars, shmVars, chop, repo, appVars, sensorVars, smVars,
                   pipeVars, sockVars>>

NextCodec == Codec_to_json \/ Codec_from_json_str

SpecCodec == InitCodec /\ [][NextCodec]_vars

(***************************************************************************)
(* SMServerConnection.chop_json applied to a string, and to its own result *)
(***************************************************************************)
\* the characters of the strings: the two brackets and one other character
ChopChars == {"{", "}", "a"}

ChopStrings == UNION { [1..n -> ChopChars] : n \in 0..MaxChopLen }

InitChop ==
    /\ InitRun("none", {FALSE})
    /\ InitRelease(FALSE, {TRUE})
    /\ InitApp
    /\ InitMainChain({FALSE})
    /\ InitSensors(0)
    /\ InitSM(FALSE)
    /\ InitPipe(FALSE)
    /\ InitSock(FALSE)
    /\ codec = NoCodec
    /\ \E j \in ChopStrings : chop = [NoChop EXCEPT !.pc = "string", !.j = j]

\* jchopped = SMServerConnection.chop_json(j)
Chop_once ==
    /\ chop.pc = "string"
    /\ chop' = [chop EXCEPT !.pc = "once", !.once = chop_json(chop.j)]
    /\ UNCHANGED <<runVars, cfgVars, shmVars, codec, repo, appVars, sensorVars, smVars,
                   pipeVars, sockVars>>

\* SMServerConnection.chop_json(jchopped)
Chop_twice ==
    /\ chop.pc = "once"
    /\ chop' = [chop EXCEPT !.pc = "twice", !.twice = chop_json(chop.once)]
    /\ UNCHANGED <<runVars, cfgVars, shmVars, codec, repo, appVars, sensorVars, smVars,
                   pipeVars, sockVars>>

NextChop == Chop_once \/ Chop_twice

SpecChop == InitChop /\ [][NextChop]_vars

(***************************************************************************)
(* Properties                                                              *)
(***************************************************************************)
\* the Messages of sensor i that reached the chain, in the order they did
ForwardedOf(i) ==
    LET FromSensor(m) == m.id = SensorId(i)
    IN  SelectSeq(repo.message_list, FromSensor)

IsPrefix(a, b) == Len(a) <= Len(b) /\ SubSeq(b, 1, Len(a)) = a

\* a is b with some elements left out
RECURSIVE IsSubsequence(_, _)
IsSubsequence(a, b) ==
    IF a = <<>> THEN TRUE
    ELSE IF b = <<>> THEN FALSE
    ELSE IF Head(a) = Head(b) THEN IsSubsequence(Tail(a), Tail(b))
    ELSE IsSubsequence(a, Tail(b))

NoDuplicates(s) == Cardinality(Range(s)) = Len(s)

\* the first place of the sequence s that holds e
Position(e, s) == CHOOSE k \in DOMAIN s : s[k] = e /\ \A l \in 1..(k - 1) : s[l] /= e

Ended == {"done", "crashed"}

\* C1: sink-chain failure isolation. Once an append of a Message to a chain
\* of three sinks whose second sink's write always fails has ended, the first
\* and the third sink have both handled that Message, and the ingestion loop
\* that called append is still running.
C1_SinkFailureIsolated ==
    \A t \in Threads :
        ( /\ Len(chain) = 3
          /\ failing = {chain[2]}
          /\ appMsg[t] /= NoMessage
          /\ appPc[t] \in {"idle", "crashed"} )
        => /\ appPc[t] /= "crashed"
           /\ Count(<<chain[1], appMsg[t]>>, repo.handled) = 1
           /\ Count(<<chain[3], appMsg[t]>>, repo.handled) = 1

\* C2: every Message whose append returned to its ingestion loop was handled
\* exactly once by every sink the run was configured with (SQL and CSV
\* always, console and plot when enabled), the sinks of the chain in the
\* chain's order.
C2_EverySinkOnceInOrder ==
    \A n \in DOMAIN completed :
        LET m == completed[n]
        IN  /\ \A kind \in configured : Count(<<kind, m>>, repo.handled) = 1
            /\ \A a \in DOMAIN chain : \A b \in DOMAIN chain :
                  a < b => Position(<<chain[a], m>>, repo.handled)
                             < Position(<<chain[b], m>>, repo.handled)

\* C3: socket framing. When two encoded objects were sent back to back on a
\* connection and the consumer has read all their bytes, in whatever chunks,
\* it has forwarded the first and then the second as two Messages.
C3_FramingSplitsObjects ==
    \A i \in Sensors :
        ( /\ connection_type = "socket"
          /\ connPc[i] /= "none"
          /\ Len(sent[i]) = 2
          /\ wire[i] = <<>> )
        => ForwardedOf(i) = sent[i]

\* C4: shared-memory single-slot handoff. The producer writes the mailbox
\* only while the flag is clear; a send completes (sets the flag) only when
\* the flag is clear, so a second send does not complete before the first
\* was consumed; and only the consumer's clearing step clears the flag.
C4_SingleSlotHandoff ==
    [][ /\ (written' /= written \/ mailbox' /= mailbox) => new_data_flag = 0
        /\ sent' /= sent /\ connection_type = "shared_memory" => new_data_flag = 0
        /\ (new_data_flag = 1 /\ new_data_flag' = 0) => (smPc = "clear" /\ smPc' = "top")
      ]_vars

\* C4 witness: a second send waits on the flag of the first, unconsumed one
C4_SecondSendWaits ==
    /\ connection_type = "shared_memory"
    /\ Len(sent[1]) = 1
    /\ sensorPc[1] = "send_spin"
    /\ new_data_flag = 1

\* C5: shared-memory capacity limit. The step of send that checks the
\* capacity writes a payload as long as the mailbox and goes on to set the
\* flag; for a payload one byte longer it leaves send with the error, with
\* the mailbox and the flag unchanged.
C5_CapacityLimit ==
    [][ \A i \in Sensors :
          LET msg == to_json(message[i])
          IN  /\ (sensorPc[i] = "send_write" /\ sensorPc'[i] /= "send_write"
                    /\ Len(msg) = MailboxSize)
                 => /\ SubSeq(mailbox', 1, Len(msg)) = msg
                    /\ sensorPc'[i] = "send_flag"
              /\ (sensorPc[i] = "send_write" /\ sensorPc'[i] /= "send_write"
                    /\ Len(msg) = MailboxSize + 1)
                 => /\ sensorPc'[i] = "crashed"
                    /\ mailbox' = mailbox
                    /\ new_data_flag' = new_data_flag
              /\ (sensorPc[i] = "send_flag" /\ sensorPc'[i] /= "send_flag")
                 => /\ new_data_flag' = 1
                    /\ sensorPc'[i] = "sleep"
      ]_vars

\* C5 witness: a payload as long as the mailbox was sent, and the send of a
\* payload one byte longer has failed
C5_BothCapacityCases ==
    /\ connection_type = "shared_memory"
    /\ \E k \in DOMAIN sent[1] : Len(to_json(sent[1][k])) = MailboxSize
    /\ sensorPc[1] = "crashed"
    /\ Len(to_json(message[1])) = MailboxSize + 1

\* C6: per-sensor ordering. The Messages of one sensor that reached the chain
\* are the Messages it sent, some left out, in the order sent and none twice;
\* over shared memory they are a prefix of the Messages sent.
C6_PerSensorOrder ==
    \A i \in Sensors :
        /\ IsSubsequence(ForwardedOf(i), sent[i])
        /\ NoDuplicates(ForwardedOf(i))
        /\ connection_type = "shared_memory" => IsPrefix(ForwardedOf(i), sent[i])

\* C6 witness: both Messages a sensor sent over shared memory were forwarded
C6_TwoForwarded ==
    /\ connection_type = "shared_memory"
    /\ Len(sent[1]) = 2
    /\ ForwardedOf(1) = sent[1]

\* C7: socket consumer cancellation. A connection thread that waits in recv
\* with the cancellation signal set, nothing to read and no end of stream can
\* take a step of its own (it does not need bytes or the peer's close).
C7_SocketConsumerCanLeaveRecv ==
    \A i \in Sensors :
        ( /\ thread_stop_event
          /\ connPc[i] \in {"read1", "read2"}
          /\ wire[i] = <<>>
          /\ ~EndOfStream(i) )
        => ENABLED Conn(i)

\* C8: shared-memory consumer cancellation. A consumer that waits for the
\* flag with the cancellation signal set, the flag clear and its regions
\* open can take a step that leaves this wait.
C8_SMConsumerCanLeaveWait ==
    ( /\ thread_stop_event
      /\ smPc = "spin"
      /\ new_data_flag = 0
      /\ srv_flag_open )
    => ENABLED <<SM_run>>_vars

\* C9: listener shutdown. Once the cancellation signal is set the listener
\* accepts no further connection; and a listener that waits in accept with
\* the signal set and no connection pending can take a step of its own.
C9_ListenerStopsOnSignal ==
    /\ [][thread_stop_event => client_sockets' = client_sockets]_vars
    /\ []( (thread_stop_event /\ listenerPc = "accept" /\ pending = <<>>)
             => ENABLED Listener )

\* C10: close() unblocks run. After main has closed every consumer endpoint
\* (it is at the join of the server threads), each server thread has ended or
\* can take a step that leaves its wait for the next message.
C10_CloseUnblocksRun ==
    mainPc = "join_servers" =>
        CASE connection_type = "shared_memory" ->
                 smPc \in Ended \/ ENABLED <<SM_run>>_vars
          [] connection_type = "pipe" ->
                 pipePc \in Ended \/ ENABLED <<Pipe_run>>_vars
          [] OTHER ->
                 listenerPc \in Ended \/ ENABLED <<Listener>>_vars

\* C11: decode failure is non-fatal. When the read step of a socket consumer
\* returns a payload (the chunks joined once an opening bracket was seen and
\* the brackets balance) that cannot be decoded as a Message, the thread does
\* not end by it: it skips the payload and is back at the top of its loop.
C11_DecodeFailureSkipped ==
    [][ \A i \in Sensors :
          ( /\ connPc[i] \in {"read1", "read2"}
            /\ chunks'[i] /= chunks[i]
            /\ opening_brackets'[i] > 0
            /\ opening_brackets'[i] <= closing_brackets'[i]
            /\ ~Decodable(chunks'[i]) )
          => /\ connPc'[i] = "top"
             /\ repo' = repo
      ]_vars

\* C13: producer send outcome. A step of send on the socket transport never
\* ends the sensor process by an exception (a refused connection or a peer
\* that closed makes send return false instead), so the sensor can call send
\* again.
C13_SendNeverRaises ==
    [][ \A i \in Sensors :
          (connection_type = "socket" /\ sensorPc[i] = "send")
          => sensorPc'[i] /= "crashed"
      ]_vars

Released(e) ==
    IF e = 0
    THEN CASE connection_type = "shared_memory" -> ~srv_message_open /\ ~srv_flag_open
           [] connection_type = "pipe" -> ~srv_pipe_open
           [] OTHER -> /\ ~server_socket_open
                       /\ \A i \in Range(client_sockets) : ~cs_open[i]
    ELSE CASE connection_type = "shared_memory" ->
                /\ ~shm.message_open /\ ~shm.flag_open
                /\ shm.posix => (~shm.message_linked /\ ~shm.flag_linked)
           [] connection_type = "pipe" -> "child" \notin pipe_writers
           [] OTHER -> "child" \in peer_closed[e]

\* C14: close() is idempotent. A call of close() on a producer or consumer
\* endpoint that was closed before raises no error and leaves the endpoint's
\* resources released.
C14_CloseIdempotent ==
    [][ \A e \in Endpoints :
          close_again'[e] = close_again[e] + 1
          => /\ ~shm'.raised
             /\ Released(e)'
      ]_vars

\* C15: a control Message is never treated as sample data. No console line,
\* CSV row, SQL row or plot-queue entry is that of a Message whose data is the
\* sentinel, and every Message with data 0 whose append returned is recorded
\* by each sink of the chain.
C15_ControlNeverSample ==
    /\ \A k \in DOMAIN repo.screen_out : repo.screen_out[k].data /= None
    /\ \A k \in DOMAIN repo.csv_file :
          repo.csv_file[k][1] = "row" => repo.csv_file[k][2].data /= None
    /\ \A k \in DOMAIN repo.sql_rows : repo.sql_rows[k].message.data /= None
    /\ \A k \in DOMAIN repo.plot_queue : "null" \notin Range(repo.plot_queue[k])
    /\ \A n \in DOMAIN completed :
          LET m == completed[n]
          IN  m.data = <<"0">> =>
                /\ "screen" \in Range(chain) => m \in Range(repo.screen_out)
                /\ "csv" \in Range(chain) => <<"row", m>> \in Range(repo.csv_file)
                /\ "sql" \in Range(chain) =>
                      \E k \in DOMAIN repo.sql_rows : repo.sql_rows[k].message = m
                /\ "plot" \in Range(chain) => to_json(m) \in Range(repo.plot_queue)

\* the CSV sink has handled a control Message
CsvSawControl ==
    \E k \in DOMAIN repo.handled :
        repo.handled[k][1] = "csv" /\ repo.handled[k][2].data = None

\* C16: the CSV sink stops at the control message. Once the CSV sink has
\* handled a control Message, no step changes the content of the file.
C16_CsvStopsAtControl ==
    [][CsvSawControl => repo'.csv_file = repo.csv_file]_vars

\* the Messages of the data rows of the CSV file, in the file's order
CsvRowMessages ==
    LET IsRow(x) == x[1] = "row"
        rows == SelectSeq(repo.csv_file, IsRow)
    IN  [k \in DOMAIN rows |-> rows[k][2]]

\* the sample Messages the CSV sink handled, in the order it handled them
CsvHandledSamples ==
    LET IsCsvSample(h) == h[1] = "csv" /\ h[2].data /= None
        hs == SelectSeq(repo.handled, IsCsvSample)
    IN  [k \in DOMAIN hs |-> hs[k][2]]

\* C17: CSV layout. The file is empty or starts with the header row, holds
\* the header row once only, and its data rows are those of the sample
\* Messages the sink handled, one each, in the order it handled them; a
\* sample Message whose append returned has exactly one data row.
C17_CsvLayout ==
    /\ repo.csv_file /= <<>> => repo.csv_file[1] = <<"header">>
    /\ Count(<<"header">>, repo.csv_file) <= 1
    /\ CsvRowMessages = CsvHandledSamples
    /\ \A n \in DOMAIN completed :
          completed[n].data /= None
          => Count(<<"row", completed[n]>>, repo.csv_file) = 1

\* C17 witness: a control Message came first, then two threads each had a
\* sample written, and the file holds the header and those rows
C17_TwoThreadsWrote ==
    /\ Len(repo.handled) > 0
    /\ repo.handled[1][2].data = None
    /\ \E a \in DOMAIN CsvRowMessages : CsvRowMessages[a].id = SensorId(1)
    /\ \E b \in DOMAIN CsvRowMessages : CsvRowMessages[b].id = SensorId(2)
    /\ Len(repo.csv_file) >= 3

\* C18: SQL row ids. The _handle of the SQL sink for a sample Message, with
\* no I/O error, inserts one row whose id is larger than the id of every row
\* inserted before and moves the row id on; for a control Message it inserts
\* no row and leaves the row id; also with a reader iterating over the sink.
C18_SqlRowIdsIncrease ==
    [][ \A t \in Threads :
          ( /\ appPc[t] = "handle"
            /\ appPc'[t] /= "handle"
            /\ chain[appIdx[t]] = "sql"
            /\ failing = {} )
          => IF appMsg[t].data = None
             THEN repo'.sql_rows = repo.sql_rows /\ repo'.rowid = repo.rowid
             ELSE /\ appPc'[t] /= "crashed"
                  /\ Len(repo'.sql_rows) = Len(repo.sql_rows) + 1
                  /\ \A k \in DOMAIN repo.sql_rows :
                        repo.sql_rows[k].rowid < repo'.sql_rows[Len(repo'.sql_rows)].rowid
                  /\ repo'.rowid > repo.rowid
      ]_vars

\* every consumer thread of the run has ended: the thread of the consumer
\* endpoint and, for the socket variant, the thread of every connection
ConsumerThreadsEnded ==
    /\ ServerThreadsEnded
    /\ connection_type = "socket" => \A i \in Sensors : connPc[i] \in Ended \cup {"none"}

\* C19: exit ordering. When the main routine has run to its end, the
\* cancellation signals are set, every sensor process has ended, close() has
\* released every producer endpoint and the consumer endpoint (with every
\* accepted client socket), and every consumer thread has ended.
C19_ExitOrdering ==
    mainPc = "done" =>
        /\ thread_stop_event /\ proc_stop_event
        /\ \A i \in Sensors : Running(i) => sensorPc[i] \in Ended
        /\ \A i \in Sensors : Running(i) => Released(i)
        /\ Released(0)
        /\ ConsumerThreadsEnded

\* a control Message (data None) has come out of the transport: it is in the
\* base Repository's list, which every forwarded Message reaches
ControlForwarded ==
    \E k \in DOMAIN repo.message_list : repo.message_list[k].data = None

\* C20: in-band shutdown. When the main routine has run to its end, a
\* control Message has travelled through the transport to the sink chain
\* (the one way a sink with a worker is told to stop).
C20_InBandShutdown ==
    mainPc = "done" => ControlForwarded

\* C21: sensor cancellation. With the cancellation signal set, a sensor that
\* has not ended can take a step of its own towards the check of the signal,
\* also when the consumer thread of its transport has ended: it is not left
\* waiting in send for a consumer that is gone.
C21_SensorCanObserveStop ==
    \A i \in Sensors :
        ( /\ proc_stop_event
          /\ Running(i)
          /\ sensorPc[i] \notin Ended
          /\ ServerThreadsEnded )
        => ENABLED <<Sensor(i)>>_vars

RECURSIVE Depth(_, _, _)
Depth(j, a, b) ==
    IF b < a THEN 0
    ELSE LET d == Depth(j, a, b - 1)
         IN  IF d < 0 THEN -1
             ELSE IF j[b] = "{" THEN d + 1
             ELSE IF j[b] = "}" THEN d - 1
             ELSE d

\* the places a..b of j are a balanced {...} span
BalancedSpan(j, a, b) ==
    /\ a < b /\ j[a] = "{" /\ j[b] = "}"
    /\ Depth(j, a, b) = 0
    /\ \A k \in a..(b - 1) : Depth(j, a, k) > 0

HasBalancedSpan(j) == \E a \in DOMAIN j : \E b \in DOMAIN j : BalancedSpan(j, a, b)

\* the place of the first opening bracket of j
FirstOpening(j) == CHOOSE a \in DOMAIN j : j[a] = "{" /\ \A k \in 1..(a - 1) : j[k] /= "{"

\* C23: chop_json is idempotent. For a string with at least one balanced
\* {...} span, chop_json of the result of chop_json is that result.
C23_ChopIdempotent ==
    (chop.pc = "twice" /\ HasBalancedSpan(chop.j)) => chop.twice = chop.once

\* C25: chop_json result. For a string whose first opening bracket has its
\* matching closing bracket, the result is the substring from the first
\* opening bracket to that matching bracket, whatever stands before and
\* behind it.
C25_ChopFirstToMatching ==
    \A b \in DOMAIN chop.j :
        ( /\ chop.pc \in {"once", "twice"}
          /\ "{" \in Range(chop.j)
          /\ BalancedSpan(chop.j, FirstOpening(chop.j), b) )
        => chop.once = SubSeq(chop.j, FirstOpening(chop.j), b)

\* C24: repository read-back. An iteration over the CSV sink or the SQL sink
\* that began when the sink held samples, once it has ended, has ended
\* without an exception and has given the Messages of those samples, equal
\* in id, name, data and time_stamp, in the order they were appended.
C24_ReadBack ==
    ( /\ repo.read_of \in {"csv", "sql"}
      /\ ~repo.iterating
      /\ repo.read_from /= <<>> )
    => /\ ~repo.read_raised
       /\ IsPrefix(repo.read_from, repo.yielded)

\* C26: the shared-memory consumer never crashes on a released region. No
\* step of the consumer's run that finds its mailbox region or its flag
\* region closed (while it waits, decodes the mailbox or clears the flag)
\* ends the run by an unhandled failure: the run ends as done.
C26_SMConsumerEndsNormally ==
    [][ (smPc /= smPc' /\ (~srv_message_open \/ ~srv_flag_open))
        => smPc' /= "crashed"
      ]_vars

\* C27: shared-memory end of stream. Once the producer's close() has
\* released and unlinked the regions, with the consumer's cancellation
\* signal clear and its own regions open, a consumer thread that has not
\* ended can take a step of its own: it is not left in its wait for the flag.
C27_ProducerCloseEndsRun ==
    ( /\ connection_type = "shared_memory"
      /\ Released(1)
      /\ ~shm.message_linked /\ ~shm.flag_linked
      /\ ~thread_stop_event
      /\ srv_message_open /\ srv_flag_open
      /\ smPc \notin Ended )
    => ENABLED <<SM_run>>_vars

\* the thread t is inside the _handle of the sink at its place of the chain
InHandle(t) == appPc[t] \in {"handle", "csv_row"}

\* the step is one of thread t inside the _handle of the sink kind, with
\* that sink's lock held by t
HandleStepOf(t, kind) ==
    /\ InHandle(t)
    /\ chain[appIdx[t]] = kind
    /\ lock[kind] = t
    /\ appPc'[t] /= appPc[t]

C29_ResidueIgnored ==
    [][ (smPc = "decode" /\ smPc' /= "decode" /\ srv_message_open)
        => /\ smPc' = "clear"
           /\ written /= <<>>
           /\ repo'.message_list = Append(repo.message_list, written[Len(written)])
      ]_vars

\* C29 witness: the second payload was shorter than the first, its residue
\* is in the mailbox behind the second, and both Messages were forwarded
C29_ShorterAfterLonger ==
    /\ connection_type = "shared_memory"
    /\ Len(written) = 2
    /\ Len(to_json(written[2])) < Len(to_json(written[1]))
    /\ SubSeq(mailbox, 1, Len(to_json(written[2]))) = to_json(written[2])
    /\ mailbox[Len(to_json(written[1]))] = "}"
    /\ repo.message_list = written

====
